---- MODULE Spec2Model ----
(***************************************************************************)
(* OSC99, OscCommon.h: the 32-bit and 64-bit OSC argument unions, their    *)
(* byte-addressable views, and the packet-content predicates.              *)
(*                                                                         *)
(* A union is modelled as its memory: a function from byte offsets         *)
(* 0..sizeof-1 to bytes.  Every view is a set of fields at fixed offsets.  *)
(* Multi-byte scalars are stored in the host's byte order; the header's    *)
(* LITTLE_ENDIAN_PLATFORM flag is, by its own comment, defined exactly     *)
(* when the host is little-endian.                                         *)
(*                                                                         *)
(* Unsigned 32/64-bit quantities and floating-point bit patterns are       *)
(* written as sequences of bytes, most-significant first (they exceed     *)
(* 32-bit signed arithmetic); int32 is a genuine two's-complement integer. *)
(***************************************************************************)
EXTENDS Integers, Sequences, FiniteSets, TLC

VARIABLES
    LITTLE_ENDIAN_PLATFORM, \* OscCommon.h:26, TRUE when the flag is defined
    packDefined,            \* OscCommon.h:43-47, _MSC_VER or __GNUC__ defined
    floatModel,             \* the platform's <float.h>: DBL_MANT_DIG and widths
    build,                  \* "pending", "ok" or "error": result of compiling
    pc,                     \* "idle", or the call that has just returned
    arg,                    \* the typed value handed to / kept by the call
    mem,                    \* the union's memory after the call
    wire,                   \* the wire bytes, byte[0] first
    decoded,                \* the typed value read back from the wire bytes
    contents,               \* the buffer handed to a packet predicate
    result,                 \* "true", "false", "fault", or "none"
    outOfBounds             \* the call read beyond the end of contents

vars == <<LITTLE_ENDIAN_PLATFORM, packDefined, floatModel, build, pc, arg, mem,
          wire, decoded, contents, result, outOfBounds>>

----------------------------------------------------------------------------
(* Bounds of the input domains.                                            *)

NumByteVals32 == 3
NumByteVals64 == 2
MaxContentsLen == 7

ByteList == <<0, 1, 255, 128, 127, 2>>

ByteVals32 == {ByteList[i] : i \in 1..NumByteVals32}
ByteVals64 == {ByteList[i] : i \in 1..NumByteVals64}

Quads == [1..4 -> ByteVals32] \cup {<<17, 34, 51, 68>>}

(* Byte sequences of length n with at most two non-zero bytes: the inputs  *)
(* of the 64-bit views and of the wider floating types.                    *)
Sparse(n) ==
    IF n = 0 THEN {<<>>}
    ELSE {[i \in 1..n |-> IF i = p THEN a ELSE IF i = q THEN b ELSE 0] :
             p \in 1..n, q \in 1..n, a \in ByteVals64, b \in ByteVals64}

Octets == Sparse(8)

(* The values n indeterminate bytes may hold: any one byte, repeated.      *)
Junk(n) ==
    IF n = 0 THEN {<<>>}
    ELSE {[i \in 1..n |-> b] : b \in ByteVals64}

Zeros(n) == [i \in 1..n |-> 0]

----------------------------------------------------------------------------
(* Platform.                                                               *)

FloatModels ==
    { [DBL_MANT_DIG |-> 53, sizeofDouble |-> 8, sizeofLongDouble |-> 16],
      [DBL_MANT_DIG |-> 24, sizeofDouble |-> 4, sizeofLongDouble |-> 4],
      [DBL_MANT_DIG |-> 24, sizeofDouble |-> 4, sizeofLongDouble |-> 8],
      [DBL_MANT_DIG |-> 24, sizeofDouble |-> 4, sizeofLongDouble |-> 12] }

(* Offset, inside an n-byte scalar, of the byte of significance k          *)
(* (k = 0 is the least significant byte), in the host's byte order.        *)
NativeOffset(n, k) == IF LITTLE_ENDIAN_PLATFORM THEN k ELSE n - 1 - k

(* Store the n-byte scalar d (most-significant byte first) at base.        *)
StoreScalar(m, base, d) ==
    LET n == Len(d) IN
    [o \in DOMAIN m |->
        IF o >= base /\ o < base + n
        THEN d[n - NativeOffset(n, o - base)]
        ELSE m[o]]

(* Load the n-byte scalar at base, most-significant byte first.            *)
LoadScalar(m, base, n) == [j \in 1..n |-> m[base + NativeOffset(n, n - j)]]

StoreByte(m, off, b) == [m EXCEPT ![off] = b]

(* int32_t: two's complement.                                              *)
ByteOfInt32(v, k) == (v \div (256 ^ k)) % 256

Int32Bytes(v) == <<ByteOfInt32(v, 3), ByteOfInt32(v, 2), ByteOfInt32(v, 1), ByteOfInt32(v, 0)>>

Int32OfBytes(d) ==
    (IF d[1] >= 128 THEN d[1] - 256 ELSE d[1]) * 16777216
        + (d[2] * 65536 + d[3] * 256 + d[4])

----------------------------------------------------------------------------
(* Layout of the types: field offsets and sizes.                           *)

(* Mutant: the big-endian declaration order used on every platform.       *)
RgbaColourOffset_NoSwap(field) ==
    CASE field = "red" -> 0 [] field = "green" -> 1
      [] field = "blue" -> 2 [] field = "alpha" -> 3

RgbaColourOffset(field) ==
    IF LITTLE_ENDIAN_PLATFORM
    THEN CASE field = "alpha" -> 0 [] field = "blue" -> 1
           [] field = "green" -> 2 [] field = "red" -> 3
    ELSE CASE field = "red" -> 0 [] field = "green" -> 1
           [] field = "blue" -> 2 [] field = "alpha" -> 3

MidiMessageOffset(field) ==
    IF LITTLE_ENDIAN_PLATFORM
    THEN CASE field = "data2" -> 0 [] field = "data1" -> 1
           [] field = "status" -> 2 [] field = "portID" -> 3
    ELSE CASE field = "portID" -> 0 [] field = "status" -> 1
           [] field = "data1" -> 2 [] field = "data2" -> 3

(* Mutant: the little-endian declaration order used on every platform.    *)
Arg32ByteOffset_NoSwap(k) == k

(* OscArgument32.byteStruct: offset of field byte<k>.                      *)
Arg32ByteOffset(k) == IF LITTLE_ENDIAN_PLATFORM THEN k ELSE 3 - k

(* OscTimeTag.dwordStruct: the same order on every platform.               *)
DwordStructOffset(field) ==
    CASE field = "fraction" -> 0 [] field = "seconds" -> 4

(* Mutant: the 4-byte byteStruct of OscArgument32 used for the time tag.   *)
TimeTagByteOffset_FourBytes(k) == Arg32ByteOffset(k % 4)

(* OscTimeTag.byteStruct: offset of field byte<k>.                         *)
TimeTagByteOffset(k) == IF LITTLE_ENDIAN_PLATFORM THEN k ELSE 7 - k

(* OscArgument64.byteStruct: offset of field byte<k>.                      *)
Arg64ByteOffset(k) == IF LITTLE_ENDIAN_PLATFORM THEN k ELSE 7 - k

Max(S) == CHOOSE x \in S : \A y \in S : y <= x

(* typedef double Double64, or long double when DBL_MANT_DIG is not 53.    *)
SizeofDouble64 ==
    IF floatModel.DBL_MANT_DIG = 53
    THEN floatModel.sizeofDouble
    ELSE floatModel.sizeofLongDouble

Views32 == {"int32", "float32", "rgbaColour", "midiMessage", "byteStruct"}
Views64 == {"int64", "oscTimeTag", "double64", "byteStruct"}

(* The byte offsets of the union that a member occupies.                   *)
Extent32(view) ==
    CASE view = "int32" -> 0..3
      [] view = "float32" -> 0..3
      [] view = "rgbaColour" ->
            {RgbaColourOffset(f) : f \in {"red", "green", "blue", "alpha"}}
      [] view = "midiMessage" ->
            {MidiMessageOffset(f) : f \in {"portID", "status", "data1", "data2"}}
      [] view = "byteStruct" -> {Arg32ByteOffset(k) : k \in 0..3}

ExtentTimeTag(view) ==
    CASE view = "value" -> 0..7
      [] view = "dwordStruct" ->
            UNION {DwordStructOffset(f)..(DwordStructOffset(f) + 3) :
                      f \in {"fraction", "seconds"}}
      [] view = "byteStruct" -> {TimeTagByteOffset(k) : k \in 0..7}

SizeofOscTimeTag ==
    Max(UNION {ExtentTimeTag(v) : v \in {"value", "dwordStruct", "byteStruct"}}) + 1

Extent64(view) ==
    CASE view = "int64" -> 0..7
      [] view = "oscTimeTag" -> 0..(SizeofOscTimeTag - 1)
      [] view = "double64" -> 0..(SizeofDouble64 - 1)
      [] view = "byteStruct" -> {Arg64ByteOffset(k) : k \in 0..7}

SizeofView32(view) == Max(Extent32(view)) + 1
SizeofView64(view) == Max(Extent64(view)) + 1

(* A union is as large as its largest member (every size here is a         *)
(* multiple of the member's alignment, so no padding is added).            *)
SizeofOscArgument32 == Max({SizeofView32(v) : v \in Views32})
SizeofOscArgument64 == Max({SizeofView64(v) : v \in Views64})

----------------------------------------------------------------------------
(* Access to the unions through their views.                               *)

NoArg == [view |-> "none"]

(* An object of the given size before anything is stored in it: the bytes  *)
(* the first store will not cover are indeterminate (junk).                *)
Fresh(size, covered, junk) ==
    [o \in 0..(size - 1) |-> IF o < covered THEN 0 ELSE junk[o - covered + 1]]

WriteView32(m, a) ==
    CASE a.view = "int32" -> StoreScalar(m, 0, Int32Bytes(a.int32))
      [] a.view = "float32" -> StoreScalar(m, 0, a.bits)
      [] a.view = "rgbaColour" ->
            StoreByte(StoreByte(StoreByte(StoreByte(m,
                RgbaColourOffset("red"), a.red),
                RgbaColourOffset("green"), a.green),
                RgbaColourOffset("blue"), a.blue),
                RgbaColourOffset("alpha"), a.alpha)
      [] a.view = "midiMessage" ->
            StoreByte(StoreByte(StoreByte(StoreByte(m,
                MidiMessageOffset("portID"), a.portID),
                MidiMessageOffset("status"), a.status),
                MidiMessageOffset("data1"), a.data1),
                MidiMessageOffset("data2"), a.data2)

ReadView32(m, view) ==
    CASE view = "int32" ->
            [view |-> "int32", int32 |-> Int32OfBytes(LoadScalar(m, 0, 4))]
      [] view = "float32" ->
            [view |-> "float32", bits |-> LoadScalar(m, 0, 4)]
      [] view = "rgbaColour" ->
            [view |-> "rgbaColour",
             red |-> m[RgbaColourOffset("red")],
             green |-> m[RgbaColourOffset("green")],
             blue |-> m[RgbaColourOffset("blue")],
             alpha |-> m[RgbaColourOffset("alpha")]]
      [] view = "midiMessage" ->
            [view |-> "midiMessage",
             portID |-> m[MidiMessageOffset("portID")],
             status |-> m[MidiMessageOffset("status")],
             data1 |-> m[MidiMessageOffset("data1")],
             data2 |-> m[MidiMessageOffset("data2")]]

(* byteStruct.byte3 down to byteStruct.byte0: wire byte[0] to byte[3].     *)
ReadBytes32(m) == [i \in 1..4 |-> m[Arg32ByteOffset(4 - i)]]

WriteBytes32(m, w) ==
    [o \in DOMAIN m |->
        IF \E i \in 1..4 : Arg32ByteOffset(4 - i) = o
        THEN w[CHOOSE i \in 1..4 : Arg32ByteOffset(4 - i) = o]
        ELSE m[o]]

WriteTimeTag(m, seconds, fraction) ==
    StoreScalar(StoreScalar(m, DwordStructOffset("seconds"), seconds),
                DwordStructOffset("fraction"), fraction)

WriteView64(m, a) ==
    CASE a.view = "int64" -> StoreScalar(m, 0, a.bits)
      [] a.view = "oscTimeTag" -> WriteTimeTag(m, a.seconds, a.fraction)
      [] a.view = "double64" -> StoreScalar(m, 0, a.bits)

ReadView64(m, view) ==
    CASE view = "int64" -> [view |-> "int64", bits |-> LoadScalar(m, 0, 8)]
      [] view = "oscTimeTag" ->
            [view |-> "oscTimeTag",
             seconds |-> LoadScalar(m, DwordStructOffset("seconds"), 4),
             fraction |-> LoadScalar(m, DwordStructOffset("fraction"), 4)]
      [] view = "double64" ->
            [view |-> "double64", bits |-> LoadScalar(m, 0, SizeofDouble64)]

(* OscTimeTag.value: the time tag read as one uint64_t.                    *)
TimeTagValue(m) == LoadScalar(m, 0, 8)

(* byteStruct.byte7 down to byteStruct.byte0: wire byte[0] to byte[7].     *)
ReadBytes64(m) == [i \in 1..8 |-> m[Arg64ByteOffset(8 - i)]]

WriteBytes64(m, w) ==
    [o \in DOMAIN m |->
        IF \E i \in 1..8 : Arg64ByteOffset(8 - i) = o
        THEN w[CHOOSE i \in 1..8 : Arg64ByteOffset(8 - i) = o]
        ELSE m[o]]

----------------------------------------------------------------------------
(* Input domains.                                                          *)

Args32 ==
    {[view |-> "int32", int32 |-> Int32OfBytes(d)] : d \in Quads}
    \cup {[view |-> "float32", bits |-> d] : d \in Quads}
    \cup {[view |-> "rgbaColour", red |-> d[1], green |-> d[2],
           blue |-> d[3], alpha |-> d[4]] : d \in Quads}
    \cup {[view |-> "midiMessage", portID |-> d[1], status |-> d[2],
           data1 |-> d[3], data2 |-> d[4]] : d \in Quads}

TimeTags ==
    {[view |-> "oscTimeTag", seconds |-> SubSeq(d, 1, 4),
      fraction |-> SubSeq(d, 5, 8)] : d \in Octets}

Args64 ==
    {[view |-> "int64", bits |-> d] : d \in Octets}
    \cup TimeTags
    \cup {[view |-> "double64", bits |-> d] : d \in Sparse(SizeofDouble64)}

----------------------------------------------------------------------------
(* Packet-content predicates and the immediate time tag.                   *)

MessagePrefix == <<47>>                               \* "/"
BundlePrefix == <<35, 98, 117, 110, 100, 108, 101>>   \* "#bundle"

(* The predicates receive a pointer and no length: bytes are read in       *)
(* order, up to the first one that differs from the prefix.                *)
RECURSIVE ComparePrefix(_, _, _)
ComparePrefix(buf, prefix, i) ==
    IF i > Len(prefix) THEN "equal"
    ELSE IF i > Len(buf) THEN "outOfBounds"
    ELSE IF buf[i] # prefix[i] THEN "differ"
    ELSE ComparePrefix(buf, prefix, i + 1)

(* Mutant: the message predicate tests for the bundle's first character.  *)
OscContentsIsMessage_Hash(buf) == ComparePrefix(buf, <<35>>, 1)

OscContentsIsMessage(buf) == ComparePrefix(buf, MessagePrefix, 1)

(* Mutant: only the first character is compared.                          *)
OscContentsIsBundle_FirstByte(buf) == ComparePrefix(buf, <<35>>, 1)

(* Mutant: the string's terminating NUL is compared as well.              *)
OscContentsIsBundle_Terminated(buf) == ComparePrefix(buf, BundlePrefix \o <<0>>, 1)

OscContentsIsBundle(buf) == ComparePrefix(buf, BundlePrefix, 1)

(* What a call can return: a read beyond the end of the buffer is          *)
(* undefined, and may yield either answer or a fault.                      *)
Outcomes(cmp) ==
    CASE cmp = "equal" -> {"true"}
      [] cmp = "differ" -> {"false"}
      [] cmp = "outOfBounds" -> {"true", "false", "fault"}

oscTimeTagZero == [o \in 0..(SizeofOscTimeTag - 1) |-> 0]

IsImmediateTimeTag(m) ==
    \A k \in 0..7 : m[TimeTagByteOffset(k)] = oscTimeTagZero[TimeTagByteOffset(k)]

ContentsByte(i) ==
    (IF i <= Len(BundlePrefix) THEN {BundlePrefix[i]} ELSE {}) \cup {47, 0}

RECURSIVE Buffers(_)
Buffers(n) ==
    IF n = 0 THEN {<<>>}
    ELSE {Append(b, c) : b \in Buffers(n - 1), c \in ContentsByte(n)}

AllContents == UNION {Buffers(n) : n \in 0..MaxContentsLen}

----------------------------------------------------------------------------
(* The state machine.                                                      *)

Init ==
    /\ LITTLE_ENDIAN_PLATFORM \in BOOLEAN
    /\ packDefined \in BOOLEAN
    /\ floatModel \in FloatModels
    /\ build = "pending"
    /\ pc = "idle"
    /\ arg = NoArg
    /\ mem = <<>>
    /\ wire = <<>>
    /\ decoded = NoArg
    /\ contents = <<>>
    /\ result = "none"
    /\ outOfBounds = FALSE

platform == <<LITTLE_ENDIAN_PLATFORM, packDefined, floatModel>>

(* Compiling the header: PACK is defined only for _MSC_VER and __GNUC__;   *)
(* the DBL_MANT_DIG test selects a type and never stops the build.         *)
CompileResult == IF packDefined THEN "ok" ELSE "error"

Compile ==
    /\ build = "pending"
    /\ build' = CompileResult
    /\ UNCHANGED <<platform, pc, arg, mem, wire, decoded, contents, result,
                   outOfBounds>>

Ready == build = "ok" /\ pc = "idle"

Encode32 ==
    /\ Ready
    /\ \E a \in Args32 :
        LET m == WriteView32(Fresh(SizeofOscArgument32, SizeofView32(a.view), <<>>), a)
        IN /\ arg' = a
           /\ mem' = m
           /\ wire' = ReadBytes32(m)
    /\ pc' = "encode32"
    /\ UNCHANGED <<platform, build, decoded, contents, result, outOfBounds>>

Decode32 ==
    /\ pc = "encode32"
    /\ LET m == WriteBytes32(Fresh(SizeofOscArgument32, 4, <<>>), wire)
       IN /\ mem' = m
          /\ decoded' = ReadView32(m, arg.view)
    /\ pc' = "decode32"
    /\ UNCHANGED <<platform, build, arg, wire, contents, result, outOfBounds>>

Encode64 ==
    /\ Ready
    /\ \E a \in Args64 :
        \E junk \in Junk(SizeofOscArgument64 - SizeofView64(a.view)) :
            LET m == WriteView64(
                        Fresh(SizeofOscArgument64, SizeofView64(a.view), junk), a)
            IN /\ arg' = a
               /\ mem' = m
               /\ wire' = ReadBytes64(m)
    /\ pc' = "encode64"
    /\ UNCHANGED <<platform, build, decoded, contents, result, outOfBounds>>

Decode64 ==
    /\ pc = "encode64"
    /\ \E junk \in Junk(SizeofOscArgument64 - 8) :
        LET m == WriteBytes64(Fresh(SizeofOscArgument64, 8, junk), wire)
        IN /\ mem' = m
           /\ decoded' = ReadView64(m, arg.view)
    /\ pc' = "decode64"
    /\ UNCHANGED <<platform, build, arg, wire, contents, result, outOfBounds>>

ImmediateTimeTag ==
    /\ Ready
    /\ \E a \in TimeTags :
        LET m == WriteTimeTag(Fresh(SizeofOscTimeTag, SizeofOscTimeTag, <<>>),
                              a.seconds, a.fraction)
        IN /\ arg' = a
           /\ mem' = m
           /\ result' = IF IsImmediateTimeTag(m) THEN "true" ELSE "false"
    /\ pc' = "isImmediateTimeTag"
    /\ UNCHANGED <<platform, build, wire, decoded, contents, outOfBounds>>

ContentsIsMessage ==
    /\ Ready
    /\ \E buf \in AllContents :
        /\ contents' = buf
        /\ result' \in Outcomes(OscContentsIsMessage(buf))
        /\ outOfBounds' = (OscContentsIsMessage(buf) = "outOfBounds")
    /\ pc' = "isMessage"
    /\ UNCHANGED <<platform, build, arg, mem, wire, decoded>>

ContentsIsBundle ==
    /\ Ready
    /\ \E buf \in AllContents :
        /\ contents' = buf
        /\ result' \in Outcomes(OscContentsIsBundle(buf))
        /\ outOfBounds' = (OscContentsIsBundle(buf) = "outOfBounds")
    /\ pc' = "isBundle"
    /\ UNCHANGED <<platform, build, arg, mem, wire, decoded>>

(* The call's locals go out of scope.                                      *)
Return ==
    /\ pc # "idle"
    /\ pc' = "idle"
    /\ arg' = NoArg
    /\ mem' = <<>>
    /\ wire' = <<>>
    /\ decoded' = NoArg
    /\ contents' = <<>>
    /\ result' = "none"
    /\ outOfBounds' = FALSE
    /\ UNCHANGED <<platform, build>>

Next ==
    \/ Compile
    \/ Encode32
    \/ Decode32
    \/ Encode64
    \/ Decode64
    \/ ImmediateTimeTag
    \/ ContentsIsMessage
    \/ ContentsIsBundle
    \/ Return

Spec == Init /\ [][Next]_vars

----------------------------------------------------------------------------
(* Properties.                                                             *)

(* C1: the wire bytes of an int32 or float32, byteStruct.byte3 down to     *)
(* byteStruct.byte0, are the big-endian encoding of the value on either    *)
(* host; int32 1 encodes as 00 00 00 01.                                   *)
C1_Encode32BigEndian ==
    pc = "encode32" =>
        /\ arg.view = "int32" =>
              /\ Int32OfBytes(wire) = arg.int32
              /\ \A i \in 1..4 : wire[i] = (arg.int32 \div (256 ^ (4 - i))) % 256
              /\ arg.int32 = 1 => wire = <<0, 0, 0, 1>>
        /\ arg.view = "float32" => wire = arg.bits

C1_Witness ==
    /\ pc = "encode32"
    /\ LITTLE_ENDIAN_PLATFORM
    /\ arg.view = "int32"
    /\ arg.int32 = 1
    /\ mem[0] = 1
    /\ wire = <<0, 0, 0, 1>>

(* C2: a time tag encoded as one 8-byte value is the 4 big-endian bytes of *)
(* seconds followed by the 4 big-endian bytes of fraction, and seconds is  *)
(* the most-significant half of the 64-bit value, on either host.          *)
C2_TimeTagSecondsFirst ==
    (pc = "encode64" /\ arg.view = "oscTimeTag") =>
        /\ wire = arg.seconds \o arg.fraction
        /\ SubSeq(TimeTagValue(mem), 1, 4) = arg.seconds
        /\ SubSeq(TimeTagValue(mem), 5, 8) = arg.fraction

(* C3: a colour encodes as red, green, blue, alpha and a MIDI message as   *)
(* portID, status, data1, data2, first field at wire byte[0], on either    *)
(* host.                                                                   *)
C3_StructFieldOrder ==
    pc = "encode32" =>
        /\ arg.view = "rgbaColour" =>
              wire = <<arg.red, arg.green, arg.blue, arg.alpha>>
        /\ arg.view = "midiMessage" =>
              wire = <<arg.portID, arg.status, arg.data1, arg.data2>>

C3_Witness ==
    /\ pc = "encode32"
    /\ LITTLE_ENDIAN_PLATFORM
    /\ arg = [view |-> "rgbaColour", red |-> 17, green |-> 34, blue |-> 51,
              alpha |-> 68]
    /\ mem[0] = 68
    /\ wire = <<17, 34, 51, 68>>

(* C4: decoding the wire bytes of any value of any 32-bit or 64-bit view   *)
(* gives the value back.                                                   *)
C4_RoundTrip ==
    pc \in {"decode32", "decode64"} => decoded = arg

(* C5: isBundle answers true exactly when the first 7 bytes are "#bundle"; *)
(* a buffer that starts with '#' and continues otherwise is no bundle.     *)
C5_BundlePrefix ==
    (pc = "isBundle" /\ ~outOfBounds) =>
        /\ result = "true" <=>
              (Len(contents) >= 7 /\ SubSeq(contents, 1, 7) = BundlePrefix)
        /\ (Len(contents) >= 7 /\ contents[1] = 35
              /\ SubSeq(contents, 2, 7) # SubSeq(BundlePrefix, 2, 7)) =>
              result = "false"

C5_Witness ==
    /\ pc = "isBundle"
    /\ contents = BundlePrefix
    /\ result = "true"

(* C6: isMessage answers true exactly when the first byte is '/', whatever *)
(* follows; no buffer is both a message and a bundle; a first byte that is *)
(* neither '/' nor '#' makes both answers false.                           *)
C6_MessageFirstByte ==
    (pc \in {"isMessage", "isBundle"} /\ Len(contents) >= 1) =>
        /\ pc = "isMessage" =>
              /\ ~outOfBounds
              /\ result = "true" <=> contents[1] = 47
              /\ result \in {"true", "false"}
        /\ ~(/\ "true" \in Outcomes(OscContentsIsMessage(contents))
             /\ "true" \in Outcomes(OscContentsIsBundle(contents)))
        /\ contents[1] \notin {47, 35} =>
              /\ result = "false"
              /\ Outcomes(OscContentsIsMessage(contents)) = {"false"}
              /\ Outcomes(OscContentsIsBundle(contents)) = {"false"}

C6_Witness ==
    /\ pc = "isMessage"
    /\ Len(contents) >= 2
    /\ contents[1] = 47
    /\ contents[2] = 0
    /\ result = "true"

C9_FailFast ==
    (build # "pending" /\ floatModel.DBL_MANT_DIG # 53) => build = "error"

(* C10: in every accepted build each view covers exactly the slot's bytes: *)
(* 4 for OscArgument32, 8 for OscArgument64.                               *)
C10_ViewsOverlaySlot ==
    build = "ok" =>
        /\ SizeofOscArgument32 = 4
        /\ \A v \in Views32 : Extent32(v) = 0..3
        /\ SizeofOscArgument64 = 8
        /\ \A v \in Views64 : Extent64(v) = 0..7

====
